---------------------------- MODULE Spec2Model ----------------------------
(***************************************************************************)
(* mini_alloc: a first-fit allocator over one contiguous heap buffer, with *)
(* block headers embedded in the buffer (src/src/allocator.cpp).           *)
(*                                                                         *)
(* The heap is modelled as what it is: raw memory, an array of 8-byte      *)
(* words.  A Block header is four words (size, free, next, prev) at the    *)
(* header's address; a header that left the chain stays in memory until    *)
(* something overwrites it.  Pointers are byte addresses, nullptr is 0.    *)
(* size_t and pointers are WordBits wide and wrap modulo 2^WordBits.       *)
(***************************************************************************)
EXTENDS Integers, Sequences, FiniteSets, TLC

\* ------------------------------------------------------------------ sizes
\* Width of std::size_t and of a pointer (64 in the build; scaled down).
WordBits == 10
SIZE_MOD == 2 ^ WordBits
\* std::numeric_limits<std::size_t>::max(), allocator.cpp:202
SIZE_MAX == SIZE_MOD - 1

\* alignof(std::max_align_t), allocator.cpp:15
ALIGNMENT == 16
\* minimum payload size, allocator.cpp:16
MIN_BLOCK_SIZE == 32
\* sizeof(Block): size_t, bool (+7 padding), two pointers, alignas(16)
SizeofBlock == 32
\* bytes per memory word (sizeof(std::size_t), sizeof(Block*))
WordBytes == 8

\* The memory modelled, in ALIGNMENT units: the heap buffer and, when the
\* buffer is smaller, what lies behind it.
MaxGranules == 20
MemBytes == MaxGranules * ALIGNMENT
MemWords == MemBytes \div WordBytes

\* DEFAULT_HEAP_SIZE, allocator.cpp:14 (16 MiB, scaled to the memory modelled)
DEFAULT_HEAP_SIZE == MemBytes

\* The address std::malloc returns for the heap buffer (16-aligned).
MallocAddr == 16

\* Allocations handed out in one run.
MaxAllocs == 3
\* Calls made with a pointer that was released before, in one run.
MaxStale == 1

Wrap(n) == n % SIZE_MOD

\* align_up, allocator.cpp:19-21: (n + (a - 1)) & ~(a - 1) in size_t
align_up(n) ==
    LET s == Wrap(n + (ALIGNMENT - 1))
    IN  s - (s % ALIGNMENT)

hdr_sz == align_up(SizeofBlock)

\* --------------------------------------------------------------- variables
VARIABLES
    initialized,      \* static bool initialized
    heap_base,        \* static char* heap_base
    heap_total_size,  \* static std::size_t heap_total_size
    head,             \* static Block* head
    mem,              \* the memory at [MallocAddr, MallocAddr + MemBytes), by word
    proc,             \* "running"; "undefined" after an access outside the
                      \* heap buffer that went through; "dead" after one
                      \* that did not (or an endless loop)
    lowbit,           \* how this build reads a bool byte: its low bit, or # 0
    live,             \* the pointers the callers hold: returned, not yet released
    dangling,         \* released pointers the callers still hold
    step,             \* position in the test program's opening script
    nallocs,          \* allocations handed out so far
    nstale            \* calls made with a released pointer so far

vars == <<initialized, heap_base, heap_total_size, head, mem, proc, lowbit,
          live, dangling, step, nallocs, nstale>>

\* ------------------------------------------------------------ raw memory
\* The allocator's statics and the memory as one value G, threaded through
\* the operators below the way the statements of the code run in sequence.
\* G.oob records that the call touched memory outside the heap buffer: a
\* write that lands outside the memory modelled is lost and a read from there
\* gives 0.  G.fault records that the call cannot return (the process dies).
InMem(a) ==
    /\ a >= MallocAddr
    /\ a + WordBytes <= MallocAddr + MemBytes
    /\ (a - MallocAddr) % WordBytes = 0

InBuf(G, a) ==
    /\ a >= G.heap_base
    /\ a + WordBytes <= G.heap_base + G.heap_total_size

Idx(a) == (a - MallocAddr) \div WordBytes

Min(a, b) == IF a <= b THEN a ELSE b

Fault(G) == [G EXCEPT !.fault = TRUE]

\* Reading the word at a: Touch gives the state after the read, Load the value.
Touch(G, a) ==
    IF G.fault THEN G
    ELSE IF ~InMem(a) \/ ~InBuf(G, a) THEN [G EXCEPT !.oob = TRUE]
    ELSE G

Load(G, a) == IF InMem(a) THEN G.mem[Idx(a)] ELSE 0

Store(G, a, v) ==
    IF G.fault THEN G
    ELSE IF ~InMem(a) THEN [G EXCEPT !.oob = TRUE]
    ELSE [G EXCEPT !.mem[Idx(a)] = v, !.oob = @ \/ ~InBuf(G, a)]

\* struct Block, allocator.cpp:24-29: size at 0, free at 8, next at 16,
\* prev at 24.  TouchHdr: the state after reading fields of the header at b.
TouchHdr(G, b) == Touch(Touch(G, b), Wrap(b + 24))

BlockSize(G, b) == Load(G, b)
FreeByte(G, b) == Load(G, Wrap(b + 8)) % 256
BlockFree(G, b) ==
    IF G.lowbit THEN FreeByte(G, b) % 2 = 1 ELSE FreeByte(G, b) # 0
BlockNext(G, b) == Load(G, Wrap(b + 16))
BlockPrev(G, b) == Load(G, Wrap(b + 24))

SetSize(G, b, v) == Store(G, b, v)
\* a bool store writes one byte; the padding keeps what it held
SetFree(G, b, f) ==
    LET w == Load(G, Wrap(b + 8))
    IN  Store(G, Wrap(b + 8), (w - (w % 256)) + (IF f THEN 1 ELSE 0))
SetNext(G, b, v) == Store(G, Wrap(b + 16), v)
SetPrev(G, b, v) == Store(G, Wrap(b + 24), v)

\* ------------------------------------------------------------- allocator
\* G also carries the outputs of the running call: ret (the value returned),
\* diag (what it printed to stderr or threw, "" for nothing) and path (the
\* branch of realloc that returned).

\* The state a call works on after an earlier call G.
Again(G) == [G EXCEPT !.ret = 0, !.diag = "", !.path = ""]

\* std::memset(a, 0, n): whole words, then the low bytes of a last word
\* the low k bytes of s over d
MergeLow(d, s, k) ==
    IF k = 0 THEN d
    ELSE IF 8 * k >= WordBits THEN s
    ELSE (d - (d % (2 ^ (8 * k)))) + (s % (2 ^ (8 * k)))

\* std::memset(a, v, n) of whole words v: the n bytes from a on, the address
\* wrapping at the width of a pointer; the last word may be covered in part.
\* The fill stays inside the heap buffer when its first and its last word do.
WordsOf(n) == (n + WordBytes - 1) \div WordBytes

Covered(a, n, w) == (w - a) % SIZE_MOD < n

\* only whole words at word addresses are modelled
WordAddr(a) == a % WordBytes = MallocAddr % WordBytes

memset(G, a, v, n) ==
    IF n = 0 \/ G.fault THEN G
    ELSE [G EXCEPT
            !.mem = [i \in DOMAIN G.mem |->
                       LET w == MallocAddr + WordBytes * i
                           off == (w - a) % SIZE_MOD
                       IN  IF ~Covered(a, n, w) \/ ~WordAddr(a) THEN G.mem[i]
                           ELSE MergeLow(G.mem[i], v, Min(n - off, WordBytes))],
            !.oob = @ \/ ~InMem(a) \/ ~InBuf(G, a)
                      \/ ~InMem(a + WordBytes * (WordsOf(n) - 1))
                      \/ ~InBuf(G, a + WordBytes * (WordsOf(n) - 1))]

ZeroFill(G, a, n) == memset(G, a, 0, n)

\* init_allocator without the test of line 37: every call builds an arena.
init_allocator_every_time(G, heap_size, buf) ==
    LET total == align_up(heap_size)
        G1 == [G EXCEPT !.heap_total_size = total, !.heap_base = buf]
    IN  IF buf = 0
        THEN [G1 EXCEPT !.diag = "bad_alloc"]
        ELSE LET G2 == ZeroFill(G1, buf, total)
                 G3 == [G2 EXCEPT !.head = buf]
                 initial_payload == Wrap(total - hdr_sz + SIZE_MOD)
                 G4 == SetSize(G3, buf, initial_payload)
                 G5 == SetFree(G4, buf, TRUE)
                 G6 == SetNext(G5, buf, 0)
                 G7 == SetPrev(G6, buf, 0)
             IN  [G7 EXCEPT !.initialized = TRUE]

\* init_allocator, allocator.cpp:36-52.  buf is what std::malloc returned
\* for the heap buffer (0: it failed and std::bad_alloc is thrown).
init_allocator(G, heap_size, buf) ==
    IF G.initialized THEN G
    ELSE LET total == align_up(heap_size)
             G1 == [G EXCEPT !.heap_total_size = total, !.heap_base = buf]
         IN  IF buf = 0
             THEN [G1 EXCEPT !.diag = "bad_alloc"]
             ELSE LET G2 == ZeroFill(G1, buf, total)
                      G3 == [G2 EXCEPT !.head = buf]
                      initial_payload == Wrap(total - hdr_sz + SIZE_MOD)
                      G4 == SetSize(G3, buf, initial_payload)
                      G5 == SetFree(G4, buf, TRUE)
                      G6 == SetNext(G5, buf, 0)
                      G7 == SetPrev(G6, buf, 0)
                  IN  [G7 EXCEPT !.initialized = TRUE]

\* payload_to_block, allocator.cpp:54-59
payload_to_block(payload) ==
    IF payload = 0 THEN 0 ELSE Wrap(payload - align_up(SizeofBlock) + SIZE_MOD)

\* block_to_payload, allocator.cpp:61-64
block_to_payload(b) ==
    IF b = 0 THEN 0 ELSE Wrap(b + align_up(SizeofBlock))

\* pointer_in_heap, allocator.cpp:66-70
pointer_in_heap(G, p) ==
    IF p = 0 \/ ~G.initialized THEN FALSE
    ELSE p >= G.heap_base /\ p < G.heap_base + G.heap_total_size

\* find_fit, allocator.cpp:72-77.  The loop runs until b is null; fuel bounds
\* it, and a chain that does not end within fuel steps never ends (a cycle).
\* Result: [b |-> the block found or 0, G |-> the state after the reads].
\* A search that does not look at the flag: the first block large enough.
RECURSIVE find_fit_from_any_flag(_, _, _, _)
find_fit_from_any_flag(G, b, asize, fuel) ==
    IF b = 0 THEN [b |-> 0, G |-> G]
    ELSE IF fuel = 0 THEN [b |-> 0, G |-> Fault(G)]
    ELSE IF BlockSize(G, b) >= asize THEN [b |-> b, G |-> TouchHdr(G, b)]
    ELSE find_fit_from_any_flag(TouchHdr(G, b), BlockNext(G, b), asize, fuel - 1)

RECURSIVE find_fit_from(_, _, _, _)
find_fit_from(G, b, asize, fuel) ==
    IF b = 0 THEN [b |-> 0, G |-> G]
    ELSE IF fuel = 0 THEN [b |-> 0, G |-> Fault(G)]
    ELSE LET G1 == TouchHdr(G, b)
         IN  IF G1.fault THEN [b |-> 0, G |-> G1]
             ELSE IF BlockFree(G1, b) /\ BlockSize(G1, b) >= asize
                  THEN [b |-> b, G |-> G1]
                  ELSE find_fit_from(G1, BlockNext(G1, b), asize, fuel - 1)

\* A search that goes on after the first fit and takes the next one there is.
find_fit_later(G, asize) ==
    LET f == find_fit_from(G, G.head, asize, MemWords)
        g == find_fit_from(f.G, BlockNext(f.G, f.b), asize, MemWords)
    IN  IF f.b = 0 \/ g.b = 0 THEN f ELSE g

\* A search that wants more than asize bytes.
find_fit_larger(G, asize) == find_fit_from(G, G.head, asize + 1, MemWords)

find_fit(G, asize) == find_fit_from(G, G.head, asize, MemWords)


\* Statements the code repeats, each on the state before it.
\* b->size += hdr_sz + other->size, allocator.cpp:103, 109, 181-184
AddSize(G, b, other) ==
    SetSize(G, b, Wrap(BlockSize(G, b) + hdr_sz + BlockSize(G, other)))
\* dst->next = src->next, allocator.cpp:91, 104, 110, 185
CopyNext(G, dst, src) == SetNext(G, dst, BlockNext(G, src))
\* if (of->next) of->next->prev = to, allocator.cpp:92, 105, 111, 186
RelinkNext(G, of, to) ==
    IF BlockNext(G, of) # 0 THEN SetPrev(G, BlockNext(G, of), to) ELSE G
\* The three together: b absorbs the block other behind it.
Absorb(G, b, other) == RelinkNext(CopyNext(AddSize(G, b, other), b, other), other, b)

\* split_block without its split: the block is handed out whole.
split_block_whole(G, b, asize) ==
    LET G0 == TouchHdr(G, b)
    IN  IF G0.fault THEN G0
        ELSE IF ~BlockFree(G0, b) THEN G0
        ELSE SetFree(G0, b, FALSE)

\* split_block, allocator.cpp:79-97.  SplitOff: lines 84-94, the new block
\* newb cut from the end of b.
SplitOff(G, b, asize, newb) ==
    SetSize(
      SetNext(
        RelinkNext(
          CopyNext(
            SetPrev(
              SetFree(
                SetSize(G, newb,
                        Wrap(BlockSize(G, b) - asize - hdr_sz + 2 * SIZE_MOD)),
                newb, TRUE),
              newb, b),
            newb, b),
          b, newb),
        b, newb),
      b, asize)

\* A split that asks for room for a header only, not for MIN_BLOCK_SIZE too.
split_block_any_rest(G, b, asize) ==
    LET G0 == TouchHdr(G, b)
    IN  IF G0.fault THEN G0
        ELSE IF ~BlockFree(G0, b) THEN G0
        ELSE IF BlockSize(G0, b) >= Wrap(asize + hdr_sz)
             THEN SetFree(SplitOff(G0, b, asize, Wrap(b + hdr_sz + asize)), b, FALSE)
             ELSE SetFree(G0, b, FALSE)

split_block(G, b, asize) ==
    LET G0 == TouchHdr(G, b)
    IN  IF G0.fault THEN G0
        ELSE IF ~BlockFree(G0, b) THEN G0
        ELSE IF BlockSize(G0, b) >= Wrap(asize + hdr_sz + MIN_BLOCK_SIZE)
             THEN SetFree(SplitOff(G0, b, asize, Wrap(b + hdr_sz + asize)), b, FALSE)
             ELSE SetFree(G0, b, FALSE)

\* coalesce, allocator.cpp:99-115 (its result, the merged block, is unused)
CoalesceNext(G, b) ==
    \* allocator.cpp:101-106
    LET nxt == BlockNext(G, b)
        G0 == TouchHdr(G, nxt)
    IN  IF G.fault \/ nxt = 0 THEN G
        ELSE IF G0.fault THEN G0
        ELSE IF BlockFree(G0, nxt) THEN Absorb(G0, b, nxt)
        ELSE G0

CoalescePrev(G, b) ==
    \* allocator.cpp:107-113
    LET pv == BlockPrev(G, b)
        G0 == TouchHdr(G, pv)
    IN  IF G.fault \/ pv = 0 THEN G
        ELSE IF G0.fault THEN G0
        ELSE IF BlockFree(G0, pv) THEN Absorb(G0, pv, b)
        ELSE G0

\* coalesce without its second half: the previous block is not looked at.
coalesce_next_only(G, b) == CoalesceNext(TouchHdr(G, b), b)

\* A coalesce without lines 101-106: it merges into the block before only.
coalesce_prev_only(G, b) == CoalescePrev(TouchHdr(G, b), b)

coalesce(G, b) == CoalescePrev(CoalesceNext(TouchHdr(G, b), b), b)

\* malloc, allocator.cpp:117-129.  buf: see init_allocator.
\* The size a request is rounded to, allocator.cpp:121-122 and 173-174.
Rounded(n) ==
    LET a0 == align_up(n)
    IN  IF a0 < MIN_BLOCK_SIZE THEN MIN_BLOCK_SIZE ELSE a0

\* allocator.cpp:125-128, fit being what find_fit returned
malloc_found(fit, asize) ==
    IF fit.G.fault \/ fit.b = 0 THEN [fit.G EXCEPT !.ret = 0]
    ELSE [split_block(fit.G, fit.b, asize) EXCEPT !.ret = block_to_payload(fit.b)]

\* allocator.cpp:121-128, G being the state after line 119; a failed
\* init_allocator has thrown std::bad_alloc
malloc_initialized(G, size) ==
    IF ~G.initialized \/ G.fault THEN [G EXCEPT !.ret = 0]
    ELSE malloc_found(find_fit(G, Rounded(size)), Rounded(size))

malloc(G, size, buf) ==
    IF size = 0 THEN [G EXCEPT !.ret = 0]
    ELSE malloc_initialized(
             IF ~G.initialized THEN init_allocator(G, DEFAULT_HEAP_SIZE, buf) ELSE G,
             size)

\* free without the double-free test of allocator.cpp:150-153.
free_unchecked_flag(G, ptr) ==
    IF ptr = 0 THEN G
    ELSE IF ptr < G.heap_base \/ ptr >= G.heap_base + G.heap_total_size
         THEN [G EXCEPT !.diag = "not from heap"]
    ELSE LET b == payload_to_block(ptr)
             G0 == TouchHdr(G, b)
         IN  IF b < G.heap_base \/ b >= G.heap_base + G.heap_total_size
             THEN [G EXCEPT !.diag = "invalid block header"]
             ELSE IF G0.fault THEN G0
             ELSE coalesce(SetFree(G0, b, TRUE), b)

\* free without the header range test of allocator.cpp:142-146.
free_unchecked_header(G, ptr) ==
    IF ptr = 0 THEN G
    ELSE IF ptr < G.heap_base \/ ptr >= G.heap_base + G.heap_total_size
         THEN [G EXCEPT !.diag = "not from heap"]
    ELSE LET b == payload_to_block(ptr)
             G0 == TouchHdr(G, b)
         IN  IF G0.fault THEN G0
             ELSE IF BlockFree(G0, b)
                  THEN [G0 EXCEPT !.diag = "double free"]
                  ELSE coalesce(SetFree(G0, b, TRUE), b)

\* free, allocator.cpp:131-159
free(G, ptr) ==
    IF ptr = 0 THEN G
    ELSE IF ptr < G.heap_base \/ ptr >= G.heap_base + G.heap_total_size
         THEN [G EXCEPT !.diag = "not from heap"]
    ELSE LET b == payload_to_block(ptr)
             G0 == TouchHdr(G, b)
         IN  IF b < G.heap_base \/ b >= G.heap_base + G.heap_total_size
             THEN [G EXCEPT !.diag = "invalid block header"]
             ELSE IF G0.fault THEN G0
             ELSE IF BlockFree(G0, b)
                  THEN [G0 EXCEPT !.diag = "double free"]
                  ELSE coalesce(SetFree(G0, b, TRUE), b)

\* std::memcpy(dst, src, n), word by word; up: from the low addresses up, or
\* from the high addresses down.  The two differ only when the regions
\* overlap, where memcpy promises neither.
\* The bytes from a up to the first word modelled, and from a down to the last
\* one: a copy whose source and destination are both outside the memory
\* modelled changes nothing until one of them comes back into it.
GapUp(a) == IF WordAddr(a) THEN (MallocAddr - a) % SIZE_MOD ELSE SIZE_MOD

GapDown(a) ==
    IF WordAddr(a) THEN (a - (MallocAddr + MemBytes - WordBytes)) % SIZE_MOD
    ELSE SIZE_MOD

RECURSIVE CopyUp(_, _, _, _)
CopyUp(G, dst, src, n) ==
    IF n = 0 \/ G.fault THEN G
    ELSE IF ~InMem(src) /\ ~InMem(dst)
    THEN LET skip == Min(GapUp(src), GapUp(dst))
         IN  IF n <= skip THEN [G EXCEPT !.oob = TRUE]
             ELSE CopyUp([G EXCEPT !.oob = TRUE], Wrap(dst + skip),
                         Wrap(src + skip), n - skip)
    ELSE IF n >= WordBytes
         THEN CopyUp(Store(Touch(G, src), dst, Load(G, src)),
                     Wrap(dst + WordBytes), Wrap(src + WordBytes),
                     n - WordBytes)
         ELSE Store(Touch(G, src), dst, MergeLow(Load(G, dst), Load(G, src), n))

CopyDownFrom(G, dst, src, n, k, last) ==
    IF ~InMem(Wrap(src + last)) /\ ~InMem(Wrap(dst + last))
    THEN LET skip == Min(GapDown(Wrap(src + last)), GapDown(Wrap(dst + last)))
         IN  [G |-> [G EXCEPT !.oob = TRUE],
              n |-> IF last < skip THEN 0 ELSE n - skip]
    ELSE [G |-> Store(Touch(G, Wrap(src + last)), Wrap(dst + last),
                      MergeLow(Load(G, Wrap(dst + last)),
                               Load(G, Wrap(src + last)), k)),
          n |-> last]

RECURSIVE CopyDown(_, _, _, _)
CopyDown(G, dst, src, n) ==
    IF n = 0 \/ G.fault THEN G
    ELSE LET k == IF n % WordBytes = 0 THEN WordBytes ELSE n % WordBytes
             R == CopyDownFrom(G, dst, src, n, k, n - k)
         IN  CopyDown(R.G, dst, src, R.n)

memcpy(G, dst, src, n, up) ==
    IF up THEN CopyUp(G, dst, src, n) ELSE CopyDown(G, dst, src, n)


\* allocator.cpp:195-197, C being the state after the copy
Relocated(C, ptr) ==
    IF C.fault THEN C
    ELSE [free(C, ptr) EXCEPT !.ret = C.ret, !.path = "relocate"]

\* allocator.cpp:194-197, M being the state after malloc(new_size)
RelocateTo(M, ptr, asize, up) ==
    IF M.fault THEN M
    ELSE IF M.ret = 0 THEN [M EXCEPT !.path = "fail"]
    ELSE Relocated(memcpy(M, M.ret, ptr,
                          Min(BlockSize(M, payload_to_block(ptr)), asize), up),
                   ptr)

\* The relocation that releases the old block before it knows whether the
\* new one exists.
Relocate_release_first(G, ptr, new_size, asize, buf, up) ==
    RelocateTo(malloc(Again(free(G, ptr)), new_size, buf), ptr, asize, up)

\* The relocation that forgets to release the old block.
RelocatedKept(C, ptr) == IF C.fault THEN C ELSE [C EXCEPT !.path = "relocate"]

RelocateToKept(M, ptr, asize, up) ==
    IF M.fault THEN M
    ELSE IF M.ret = 0 THEN [M EXCEPT !.path = "fail"]
    ELSE RelocatedKept(memcpy(M, M.ret, ptr,
                              Min(BlockSize(M, payload_to_block(ptr)), asize), up),
                       ptr)

Relocate_keep_old(G, ptr, new_size, asize, buf, up) ==
    RelocateToKept(malloc(G, new_size, buf), ptr, asize, up)

\* realloc, allocator.cpp:162-198.  G.path names the branch that returned.
Relocate(G, ptr, new_size, asize, buf, up) ==
    \* allocator.cpp:193-197
    RelocateTo(malloc(G, new_size, buf), ptr, asize, up)

GrowInPlace(G, ptr, asize) ==
    \* allocator.cpp:183-189
    LET b == payload_to_block(ptr)
    IN  [SetFree(split_block(Absorb(G, b, BlockNext(G, b)), b, asize), b, FALSE)
            EXCEPT !.ret = ptr, !.path = "grow"]

realloc(G, ptr, new_size, buf, up) ==
    IF ptr = 0 THEN [malloc(G, new_size, buf) EXCEPT !.path = "malloc"]
    ELSE IF new_size = 0 THEN [free(G, ptr) EXCEPT !.ret = 0, !.path = "free"]
    ELSE IF ~pointer_in_heap(G, ptr)
         THEN [G EXCEPT !.ret = 0, !.diag = "not from heap", !.path = "invalid"]
    ELSE
    LET b == payload_to_block(ptr)
        asize == Rounded(new_size)
        G0 == TouchHdr(G, b)
        nxt == BlockNext(G, b)
        N0 == TouchHdr(TouchHdr(G, b), BlockNext(G, b))
    IN  IF G0.fault THEN G0
        ELSE IF BlockSize(G0, b) >= asize
             THEN [split_block(G0, b, asize) EXCEPT !.ret = ptr, !.path = "shrink"]
        ELSE IF nxt = 0 THEN Relocate(G0, ptr, new_size, asize, buf, up)
        ELSE IF N0.fault THEN N0
        ELSE IF BlockFree(N0, nxt)
                /\ Wrap(BlockSize(N0, b) + hdr_sz + BlockSize(N0, nxt)) >= asize
             THEN GrowInPlace(N0, ptr, asize)
        ELSE Relocate(N0, ptr, new_size, asize, buf, up)

\* calloc, allocator.cpp:200-207.  calloc_fill: line 205-206, M being the
\* state after malloc(total).
\* A calloc that leaves out the std::memset of line 205.
calloc_fill_nothing(M, total) == M

calloc_fill(M, total) ==
    IF M.fault \/ M.ret = 0 THEN M
    ELSE [ZeroFill(M, M.ret, total) EXCEPT !.ret = M.ret]

calloc(G, nmemb, size, buf) ==
    IF nmemb = 0 \/ size = 0 THEN [G EXCEPT !.ret = 0]
    ELSE IF nmemb > SIZE_MAX \div size THEN [G EXCEPT !.ret = 0]
    ELSE calloc_fill(malloc(G, Wrap(nmemb * size), buf), Wrap(nmemb * size))


\* ---------------------------------------------------------- the callers
\* The heap size of the test program (part_000:8: 1 MiB), scaled to the
\* memory modelled: its opening calls leave a trailing free block.
OneMiB == MemBytes
\* The byte the test program fills its allocations with (part_000:14: 0xAA),
\* as the bits of a word.
Pattern == 682

HeapSizes == {8, 40, OneMiB}
Sizes == {0, 1, 64, 128, SIZE_MAX}
Counts == {<<0, 4>>, <<10, 4>>, <<SIZE_MAX, 1>>, <<64, 32>>}

\* What std::malloc may return for the heap buffer: the buffer, or nullptr.
Bufs == IF initialized THEN {MallocAddr} ELSE {MallocAddr, 0}

\* Pointers that are not into the heap, or whose header would not be.
OutsidePtrs ==
    {MallocAddr - ALIGNMENT, heap_base + ALIGNMENT,
     heap_base + heap_total_size} \ {0}

Pack == [initialized |-> initialized, heap_base |-> heap_base,
         heap_total_size |-> heap_total_size, head |-> head,
         mem |-> mem, fault |-> FALSE, lowbit |-> lowbit, oob |-> FALSE,
         ret |-> 0, diag |-> "", path |-> ""]

\* What a call leaves behind.  An access outside the heap buffer is
\* undefined: it lands in the memory behind the buffer, or the process dies.
Outcomes(G) == IF G.oob /\ ~G.fault THEN {G, Fault(G)} ELSE {G}

Commit(G) ==
    /\ proc' = IF G.oob THEN "undefined" ELSE "running"
    /\ lowbit' = lowbit
    /\ initialized' = G.initialized
    /\ heap_base' = G.heap_base
    /\ heap_total_size' = G.heap_total_size
    /\ head' = G.head
    /\ mem' = G.mem

InitCommon ==
    /\ initialized = FALSE
    /\ heap_base = 0
    /\ heap_total_size = 0
    /\ head = 0
    /\ mem = [i \in 0..(MemWords - 1) |-> 0]
    /\ proc = "running"
    /\ live = {}
    /\ dangling = {}
    /\ step = 0
    /\ nallocs = 0
    /\ nstale = 0

\* A process that died has no state left.
Dies ==
    /\ proc' = "dead"
    /\ initialized' = FALSE
    /\ heap_base' = 0
    /\ heap_total_size' = 0
    /\ head' = 0
    /\ mem' = [i \in 0..(MemWords - 1) |-> 0]
    /\ live' = {}
    /\ dangling' = {}
    /\ step' = 0
    /\ nallocs' = 0
    /\ nstale' = 0
    /\ UNCHANGED lowbit

\* The opening of the test program, part_000:8-25: init_allocator(1 MiB),
\* a = malloc(64), b = malloc(128), free(a).  step counts how far the calls
\* made so far follow it; -1 once they left it.
ScriptNext(op, ptr, a, G) ==
    IF step = 0 /\ op = "init" /\ a = OneMiB /\ G.initialized THEN 1
    ELSE IF step = 1 /\ op = "malloc" /\ a = 64 THEN 2
    ELSE IF step = 2 /\ op = "malloc" /\ a = 128 THEN 3
    ELSE IF step = 3 /\ op = "free" /\ ptr = block_to_payload(heap_base) THEN 4
    ELSE -1

Running == proc = "running"
MayAllocate == nallocs < MaxAllocs
\* keep: the callers go on holding the pointers they released, and a call
\* with one of them counts as stale.
Stale(ptr, keep) == IF keep /\ ptr \in dangling THEN 1 ELSE 0

\* std::memset(p, 0xAA, n) by the caller that has just been handed p for n
\* bytes (part_000:14, 19).
Fill(G, a, n) == memset(G, a, Pattern, n)

\* The caller's use of what a call returned: fill it, or leave it as it is.
Used(G, n, fill) == IF fill /\ G.ret # 0 /\ ~G.fault THEN Fill(G, G.ret, n) ELSE G

InitAllocator(sz, buf) ==
    /\ Running
    /\ \E G \in Outcomes(init_allocator(Pack, sz, buf)) :
           IF G.fault THEN Dies
           ELSE /\ Commit(G)
                /\ step' = ScriptNext("init", 0, sz, G)
                /\ UNCHANGED <<live, dangling, nallocs, nstale>>

Malloc(size, buf, fill, keep) ==
    /\ Running /\ MayAllocate
    /\ \E G \in Outcomes(Used(malloc(Pack, size, buf), size, fill)) :
           IF G.fault THEN Dies
           ELSE /\ Commit(G)
                /\ live' = live \cup ({G.ret} \ {0})
                /\ dangling' = IF keep THEN dangling \ {G.ret} ELSE {}
                /\ step' = ScriptNext("malloc", 0, size, G)
                /\ nallocs' = nallocs + (IF G.ret # 0 THEN 1 ELSE 0)
                /\ UNCHANGED nstale

Free(ptr, keep) ==
    /\ Running /\ nstale + Stale(ptr, keep) <= MaxStale
    /\ \E G \in Outcomes(free(Pack, ptr)) :
           IF G.fault THEN Dies
           ELSE /\ Commit(G)
                /\ live' = live \ {ptr}
                /\ dangling' = (IF keep THEN dangling ELSE {})
                                  \cup ({ptr} \cap (live \cup dangling))
                /\ step' = ScriptNext("free", ptr, 0, G)
                /\ nstale' = nstale + Stale(ptr, keep)
                /\ UNCHANGED nallocs

Realloc(ptr, new_size, buf, up, fill, keep) ==
    /\ Running /\ MayAllocate /\ nstale + Stale(ptr, keep) <= MaxStale
    /\ \E G \in Outcomes(Used(realloc(Pack, ptr, new_size, buf, up), new_size, fill)) :
           LET moved == ptr # 0 /\ (new_size = 0 \/ G.ret \notin {0, ptr})
               gone == IF moved THEN {ptr} \cap (live \cup dangling) ELSE {}
           IN  IF G.fault THEN Dies
               ELSE /\ Commit(G)
                    /\ live' = (live \ gone) \cup ({G.ret} \ {0})
                    /\ dangling' = IF keep THEN (dangling \cup gone) \ {G.ret} ELSE {}
                    /\ step' = -1
                    /\ nallocs' = nallocs + (IF G.ret \notin {0, ptr} THEN 1 ELSE 0)
                    /\ nstale' = nstale + Stale(ptr, keep)

Calloc(nmemb, size, buf, keep) ==
    /\ Running /\ MayAllocate
    /\ \E G \in Outcomes(calloc(Pack, nmemb, size, buf)) :
           IF G.fault THEN Dies
           ELSE /\ Commit(G)
                /\ live' = live \cup ({G.ret} \ {0})
                /\ dangling' = IF keep THEN dangling \ {G.ret} ELSE {}
                /\ step' = -1
                /\ nallocs' = nallocs + (IF G.ret # 0 THEN 1 ELSE 0)
                /\ UNCHANGED nstale

\* Callers that keep the contract of the C allocation functions: a pointer
\* argument is null, a live allocation, or a pointer that is not into the
\* heap; and release may be given the pointer of the release just made.
Init == InitCommon /\ lowbit = FALSE

Next ==
    \/ \E sz \in HeapSizes, buf \in Bufs : InitAllocator(sz, buf)
    \/ \E n \in Sizes, buf \in Bufs, fill \in BOOLEAN : Malloc(n, buf, fill, FALSE)
    \/ \E p \in {0} \cup live \cup dangling \cup OutsidePtrs : Free(p, FALSE)
    \/ \E p \in {0} \cup live, n \in Sizes, buf \in Bufs, up \in BOOLEAN :
          Realloc(p, n, buf, up, FALSE, FALSE)
    \/ \E c \in Counts, buf \in Bufs : Calloc(c[1], c[2], buf, FALSE)

Spec == Init /\ [][Next]_vars

\* Callers that also pass pointers they have released before.
InitAny == InitCommon /\ lowbit \in BOOLEAN

NextAny ==
    \/ \E sz \in HeapSizes, buf \in Bufs : InitAllocator(sz, buf)
    \/ \E n \in Sizes, buf \in Bufs : Malloc(n, buf, FALSE, TRUE)
    \/ \E p \in {0} \cup live \cup dangling : Free(p, TRUE)
    \/ \E p \in {0} \cup live \cup dangling, n \in Sizes, buf \in Bufs,
          up \in BOOLEAN : Realloc(p, n, buf, up, FALSE, TRUE)
    \/ \E c \in Counts, buf \in Bufs : Calloc(c[1], c[2], buf, TRUE)

SpecAny == InitAny /\ [][NextAny]_vars

TypeOK ==
    /\ initialized \in BOOLEAN
    /\ proc \in {"running", "undefined", "dead"}
    /\ heap_base \in {0, MallocAddr}
    /\ heap_total_size \in 0..SIZE_MAX
    /\ head \in {0, MallocAddr}
    /\ mem \in [0..(MemWords - 1) -> 0..SIZE_MAX]


\* ------------------------------------------------------------- the chain
\* dump_heap's walk, allocator.cpp:216: the headers met from head by next
\* links.  It stops at a null link; fuel stops it on a chain that has none.
RECURSIVE ChainFrom(_, _, _)
ChainFrom(G, b, fuel) ==
    IF b = 0 \/ fuel = 0 \/ ~InMem(b) \/ ~InMem(Wrap(b + 24)) THEN << >>
    ELSE <<b>> \o ChainFrom(G, BlockNext(G, b), fuel - 1)

Chain(G) == ChainFrom(G, G.head, MemWords)

\* The block's extent ends here (header, then payload), as an address that
\* does not wrap.
EndOf(G, b) == b + hdr_sz + BlockSize(G, b)

\* The extents of the chain's blocks tile [heap_base, heap_base + total).
Tiles(G) ==
    LET c == Chain(G)
    IN  /\ c # << >>
        /\ c[1] = G.heap_base
        /\ \A i \in 1..(Len(c) - 1) : c[i + 1] = EndOf(G, c[i])
        /\ BlockNext(G, c[Len(c)]) = 0
        /\ EndOf(G, c[Len(c)]) = G.heap_base + G.heap_total_size

NoAdjacentFree(G) ==
    LET c == Chain(G)
    IN  \A i \in 1..(Len(c) - 1) : ~(BlockFree(G, c[i]) /\ BlockFree(G, c[i + 1]))

PayloadsValid(G) ==
    LET c == Chain(G)
    IN  \A i \in 1..Len(c) :
            /\ BlockSize(G, c[i]) % ALIGNMENT = 0
            /\ BlockSize(G, c[i]) >= MIN_BLOCK_SIZE

\* The arena exists and the process is there to look at it.
Observable == initialized /\ proc # "dead"

\* The statics and the memory are the same in G and H.
SameArena(G, H) ==
    /\ G.initialized = H.initialized
    /\ G.heap_base = H.heap_base
    /\ G.heap_total_size = H.heap_total_size
    /\ G.head = H.head
    /\ G.mem = H.mem

\* The call neither died nor touched memory outside the heap buffer.
Clean(G) == ~G.fault /\ ~G.oob

\* The chain block of G whose extent holds the bytes [a, a + n) is free.
ReleasedIn(G, a, n) ==
    LET c == Chain(G)
    IN  \E i \in 1..Len(c) :
            /\ BlockFree(G, c[i])
            /\ c[i] <= a
            /\ a + n <= EndOf(G, c[i])

\* -------------------------------------------------------------- claims

\* C1: in every reachable state with an arena, the blocks met from head by
\* next links tile [heap_base, heap_base + heap_total_size): the first header
\* is at heap_base, each next header is at this header + header size +
\* payload size, the last block ends at the end of the arena.  Pointer
\* arguments are null or pointers the allocator returned before (SpecAny).
C1_ChainTilesArena == Observable => Tiles(Pack)

\* C2: in every reachable state between operations, no two chain-adjacent
\* blocks are both free.
C2_NoAdjacentFree == Observable => NoAdjacentFree(Pack)

\* A release has just merged the released block into the block before it:
\* the released pointer's header is no longer in the chain.
C2_Witness ==
    /\ Running /\ initialized
    /\ \E p \in dangling :
           LET c == Chain(Pack)
           IN  /\ Len(c) >= 2
               /\ \A i \in 1..Len(c) : c[i] # payload_to_block(p)
               /\ ReleasedIn(Pack, payload_to_block(p), hdr_sz)

\* C3: for every positive heap size given to init_allocator, every block in
\* the chain has a payload size that is a multiple of ALIGNMENT and at least
\* MIN_BLOCK_SIZE.
C3_PayloadsAlignedAndMin == Observable => PayloadsValid(Pack)

\* C4 as claimed: after init_allocator(1 MiB), a = malloc(64),
\* b = malloc(128), free(a), the chain has exactly 2 blocks.
C4_TwoBlocks == (Observable /\ step = 4) => Len(Chain(Pack)) = 2

\* C4 as amended: after the same calls the chain has exactly 3 blocks: a's
\* block, free, with its 64 bytes; b's block, allocated, 128 bytes; and the
\* free block behind b.  a's block has no free neighbour to merge with.
C4_ThreeBlocks ==
    (Observable /\ step = 4) =>
        LET c == Chain(Pack)
        IN  /\ Len(c) = 3
            /\ BlockFree(Pack, c[1]) /\ BlockSize(Pack, c[1]) = 64
            /\ ~BlockFree(Pack, c[2]) /\ BlockSize(Pack, c[2]) = 128
            /\ BlockFree(Pack, c[3])
            /\ Tiles(Pack)

C4_Witness == Observable /\ step = 4 /\ live # {} /\ dangling # {}

\* The sizes realloc is asked for: positive, and rounded without wrapping.
NewSizes == {n \in Sizes : n > 0 /\ n + (ALIGNMENT - 1) <= SIZE_MAX}

\* C5: for a live pointer p, free(p); free(p) leaves the arena as a single
\* free(p) does, also when the first call merged p's block into a neighbour;
\* the second call only reports a double free.
C5_DoubleFreeIdempotent ==
    Running =>
        \A p \in live :
            LET G1 == free(Pack, p)
                G2 == free(Again(G1), p)
            IN  /\ Clean(G1) /\ Clean(G2)
                /\ SameArena(G2, G1)
                /\ G2.diag = "double free"

\* A live pointer whose release merges its block with the block before it
\* and with the block behind it: the chain loses two blocks.
C5_Witness ==
    /\ Running
    /\ \E p \in live :
           LET G1 == free(Pack, p)
           IN  /\ Len(Chain(G1)) + 2 = Len(Chain(Pack))
               /\ G1.diag = ""
               /\ free(Again(G1), p).diag = "double free"

\* The three ways of realloc(p, n) for a live p, from the state before the
\* call: the block is large enough; the next block is free and large enough
\* together with it; neither.
FitsInPlace(p, n) == BlockSize(Pack, payload_to_block(p)) >= Rounded(n)

FitsWithNext(p, n) ==
    LET b == payload_to_block(p)
        nxt == BlockNext(Pack, b)
    IN  /\ ~FitsInPlace(p, n)
        /\ nxt # 0
        /\ BlockFree(Pack, nxt)
        /\ BlockSize(Pack, b) + hdr_sz + BlockSize(Pack, nxt) >= Rounded(n)

MustRelocate(p, n) == ~FitsInPlace(p, n) /\ ~FitsWithNext(p, n)

\* C6: when realloc(p, n), p live and n > 0, fits neither in place nor with
\* a free next block and no free block fits n, it returns null and the
\* arena, every header and every payload byte, is as before the call.
C6_FailedReallocKeepsArena ==
    Running =>
        \A p \in live, n \in NewSizes :
            LET G == realloc(Pack, p, n, MallocAddr, TRUE)
            IN  (MustRelocate(p, n) /\ find_fit(Pack, Rounded(n)).b = 0) =>
                    /\ Clean(G)
                    /\ G.ret = 0
                    /\ SameArena(G, Pack)
                    /\ ~BlockFree(G, payload_to_block(p))

\* A realloc that fails on a live block holding the caller's bytes.
C6_Witness ==
    /\ Running
    /\ \E p \in live, n \in NewSizes :
           /\ MustRelocate(p, n)
           /\ Load(Pack, p) # 0
           /\ realloc(Pack, p, n, MallocAddr, TRUE).path = "fail"

\* C7: when realloc(p, n) relocates and the new allocation succeeds, it
\* returns q # p, the first min(old payload size, rounded n) bytes at q are
\* the bytes p held before the call, q's block is allocated, and p's old
\* block is free or part of a free block.
C7_RelocateCopiesAndReleases ==
    Running =>
        \A p \in live, n \in NewSizes, up \in BOOLEAN :
            LET G == realloc(Pack, p, n, MallocAddr, up)
                q == G.ret
                old == BlockSize(Pack, payload_to_block(p))
                len == Min(old, Rounded(n))
            IN  (MustRelocate(p, n) /\ find_fit(Pack, Rounded(n)).b # 0) =>
                    /\ Clean(G)
                    /\ q # 0 /\ q # p
                    /\ \A k \in 0..((len \div WordBytes) - 1) :
                           Load(G, q + k * WordBytes) = Load(Pack, p + k * WordBytes)
                    /\ ~BlockFree(G, payload_to_block(q))
                    /\ \E i \in 1..Len(Chain(G)) : Chain(G)[i] = payload_to_block(q)
                    /\ ReleasedIn(G, payload_to_block(p), hdr_sz + old)

\* A realloc that relocates a live block holding the caller's bytes.
C7_Witness ==
    /\ Running
    /\ \E p \in live, n \in NewSizes :
           LET G == realloc(Pack, p, n, MallocAddr, TRUE)
           IN  /\ G.path = "relocate"
               /\ Load(Pack, p) # 0
               /\ Load(G, G.ret) = Load(Pack, p)

\* C8: realloc(p, n) on a live block whose payload is at least the rounded
\* n returns p, and when the excess is at least a header plus
\* MIN_BLOCK_SIZE, p's block ends with exactly the rounded n and a free
\* block holding the remainder follows it.
C8_ShrinkSplits ==
    Running =>
        \A p \in live, n \in NewSizes :
            LET G == realloc(Pack, p, n, MallocAddr, TRUE)
                b == payload_to_block(p)
                old == BlockSize(Pack, b)
                nb == BlockNext(G, b)
            IN  FitsInPlace(p, n) =>
                    /\ G.ret = p
                    /\ (old - Rounded(n) >= hdr_sz + MIN_BLOCK_SIZE) =>
                           /\ BlockSize(G, b) = Rounded(n)
                           /\ nb = b + hdr_sz + Rounded(n)
                           /\ BlockFree(G, nb)

\* C9: realloc(p, n) on a live block that is too small but fits with its
\* free next block returns p, the block stays allocated, the next block is
\* merged into it, and an excess of at least a header plus MIN_BLOCK_SIZE is
\* split off so that p's payload size ends as the rounded n.
C9_GrowMergesAndSplits ==
    Running =>
        \A p \in live, n \in NewSizes :
            LET G == realloc(Pack, p, n, MallocAddr, TRUE)
                b == payload_to_block(p)
                nxt == BlockNext(Pack, b)
                combined == BlockSize(Pack, b) + hdr_sz + BlockSize(Pack, nxt)
            IN  FitsWithNext(p, n) =>
                    /\ G.ret = p
                    /\ ~BlockFree(G, b)
                    /\ BlockSize(G, b) =
                           IF combined - Rounded(n) >= hdr_sz + MIN_BLOCK_SIZE
                           THEN Rounded(n) ELSE combined

\* The addresses a caller can pass (word-aligned): null, those before, in
\* and behind the memory modelled, and the highest.
AnyPtrs ==
    {a \in 0..(MallocAddr + MemBytes + hdr_sz) : a % WordBytes = 0}
        \cup {SIZE_MOD - ALIGNMENT, SIZE_MOD - WordBytes}

\* p is null, outside the arena, or the header before it is.
NotReleasable(p) ==
    LET b == Wrap(p - hdr_sz + SIZE_MOD)
    IN  \/ p = 0
        \/ p < heap_base \/ p >= heap_base + heap_total_size
        \/ b < heap_base \/ b >= heap_base + heap_total_size

\* C10: free(p) leaves the arena as it is when p is null, when p is outside
\* [heap_base, heap_base + heap_total_size), or when the header before p is;
\* also when no arena was ever initialized.
C10_InvalidFreeIsNoOp ==
    Running =>
        \A p \in AnyPtrs :
            NotReleasable(p) =>
                LET G == free(Pack, p)
                IN  Clean(G) /\ SameArena(G, Pack)

\* An arena with live blocks and a pointer into it whose header would lie
\* before the arena.
C10_Witness ==
    /\ Running /\ initialized /\ live # {}
    /\ \E p \in AnyPtrs :
           /\ p >= heap_base /\ p < heap_base + heap_total_size
           /\ free(Pack, p).diag = "invalid block header"


\* The headers of the chain: where each block is, its size and its flag.
Headers(G) ==
    LET c == Chain(G)
    IN  [i \in 1..Len(c) |-> <<c[i], BlockSize(G, c[i]), BlockFree(G, c[i])>>]

\* C11: calloc(nmemb, size) returns nullptr and leaves the arena as it was
\* when nmemb is 0, size is 0 or nmemb * size is more than SIZE_MAX; in every
\* other case it returns the pointer malloc(nmemb * size) returns and leaves
\* the chain that malloc leaves, touching nothing outside the heap buffer.
C11_CallocAsMalloc ==
    Running =>
        \A c \in Counts :
            IF c[1] = 0 \/ c[2] = 0 \/ c[1] * c[2] > SIZE_MAX
            THEN /\ calloc(Pack, c[1], c[2], MallocAddr).ret = 0
                 /\ SameArena(calloc(Pack, c[1], c[2], MallocAddr), Pack)
            ELSE /\ calloc(Pack, c[1], c[2], MallocAddr).ret
                      = malloc(Pack, c[1] * c[2], MallocAddr).ret
                 /\ Clean(calloc(Pack, c[1], c[2], MallocAddr))
                 /\ Headers(calloc(Pack, c[1], c[2], MallocAddr))
                      = Headers(malloc(Pack, c[1] * c[2], MallocAddr))

\* The words of the payload at p, payload_size bytes as its header says.
PayloadWords(G, p) ==
    {Wrap(p + WordBytes * t) :
        t \in 0 .. (BlockSize(G, payload_to_block(p)) \div WordBytes) - 1}

\* C12: when calloc returns a pointer, every byte of the payload behind it,
\* all payload_size bytes of the block, reads zero, whatever the memory held
\* before the call.
C12_CallocZeroesPayload ==
    Running =>
        \A c \in Counts :
            calloc(Pack, c[1], c[2], MallocAddr).ret # 0 =>
                \A w \in PayloadWords(calloc(Pack, c[1], c[2], MallocAddr),
                                      calloc(Pack, c[1], c[2], MallocAddr).ret) :
                    Load(calloc(Pack, c[1], c[2], MallocAddr), w) = 0

\* The sizes a later init_allocator is called with.
InitSizes == HeapSizes \cup {0, SIZE_MAX}

\* init_allocator on G, whatever the size and whatever std::malloc would
\* return, gives G back.
InitIsNoOp(G) ==
    \A sz \in InitSizes, buf \in {0, MallocAddr} : init_allocator(G, sz, buf) = G

\* C13: once the arena exists, made by init_allocator or by the first malloc
\* of a size that is not 0, every later init_allocator with any size changes
\* nothing: base, total size, chain and memory stay as they are.
C13_InitOnce ==
    Running =>
        /\ initialized => InitIsNoOp(Pack)
        /\ \A sz \in HeapSizes :
               /\ init_allocator(Pack, sz, MallocAddr).initialized
               /\ InitIsNoOp(init_allocator(Pack, sz, MallocAddr))
        /\ ~initialized =>
               \A size \in Sizes \ {0} :
                   /\ malloc(Pack, size, MallocAddr).initialized
                   /\ InitIsNoOp(malloc(Pack, size, MallocAddr))

\* An arena with a live block, and an init_allocator with another size than
\* the arena's that leaves it as it is.
C13_Witness ==
    /\ Running /\ initialized /\ live # {}
    /\ \E sz \in HeapSizes :
           /\ align_up(sz) # heap_total_size
           /\ init_allocator(Pack, sz, MallocAddr) = Pack

\* The whole words among the first total bytes at p.
RequestWords(p, total) ==
    {Wrap(p + WordBytes * t) : t \in 0 .. (total \div WordBytes) - 1}

\* Every word of the total bytes asked for reads zero in C, the state that
\* calloc left.
RequestZeroed(C, total) ==
    C.ret # 0 => \A w \in RequestWords(C.ret, total) : Load(C, w) = 0

\* C12, as the code has it: when calloc(nmemb, size) returns a pointer, the
\* nmemb * size bytes asked for read zero, whatever the memory held before;
\* the rest of the payload is left as it was.
C12_CallocZeroesRequest ==
    [](Running =>
          \A c \in Counts :
              RequestZeroed(calloc(Pack, c[1], c[2], MallocAddr), c[1] * c[2]))

\* calloc returns bytes that held something else before the call.
WasDirty(C, total) ==
    /\ C.ret # 0
    /\ Clean(C)
    /\ \E w \in RequestWords(C.ret, total) : Load(Pack, w) # 0

C12_Witness ==
    /\ Running
    /\ \E c \in Counts :
           WasDirty(calloc(Pack, c[1], c[2], MallocAddr), c[1] * c[2])

\* The payload of the live block at p reads in G as it reads now.
PayloadKept(G, p) ==
    \A w \in PayloadWords(Pack, p) : Load(G, w) = Load(Pack, w)

\* C14: no malloc, calloc, free or realloc that serves another pointer
\* changes a byte of the payload of a live block, whatever its arguments,
\* sizes next to SIZE_MAX included.
C14_LivePayloadKept ==
    Running =>
        \A p \in live :
            /\ \A n \in Sizes : PayloadKept(malloc(Pack, n, MallocAddr), p)
            /\ \A c \in Counts :
                   PayloadKept(calloc(Pack, c[1], c[2], MallocAddr), p)
            /\ \A q \in ({0} \cup live \cup dangling \cup OutsidePtrs) \ {p} :
                   PayloadKept(free(Pack, q), p)
            /\ \A q \in ({0} \cup live) \ {p}, n \in Sizes, up \in BOOLEAN :
                   PayloadKept(realloc(Pack, q, n, MallocAddr, up), p)

\* The blocks of the chain, and whether block b of G is free with a payload
\* of at least a bytes.
Range(c) == {c[i] : i \in 1..Len(c)}

Blocks(G) == Range(Chain(G))

Fits(G, b, a) == BlockFree(G, b) /\ BlockSize(G, b) >= a

\* The block behind the pointer that the call which left M returned, 0 when
\* that is nullptr; and the block malloc(n) hands out in this state.
ChosenIn(M) == IF M.ret = 0 THEN 0 ELSE payload_to_block(M.ret)

Chosen(n) == ChosenIn(malloc(Pack, n, MallocAddr))

\* b is the lowest of the blocks B that is free with at least a bytes.
LowestFit(B, b, a) ==
    b # 0 =>
        /\ b \in B
        /\ Fits(Pack, b, a)
        /\ \A c \in B : c < b => ~Fits(Pack, c, a)

FirstFitAmong(B) ==
    \A n \in Sizes \ {0} : LowestFit(B, Chosen(n), Rounded(n))

\* C15: malloc(n) with n > 0 is first fit in address order: the block behind
\* a pointer it returns was, before the call, a free block of the chain with
\* a payload of at least the rounded size, and no free block at a lower
\* address had that much.
C15_FirstFit == []((Running /\ initialized) => FirstFitAmong(Blocks(Pack)))

\* Two free blocks: one request passes over the lower one, which is too
\* small for it, and another takes the lower one although the higher one
\* would do as well.
FreeBelow(b) == b # 0 /\ \E c \in Blocks(Pack) : c < b /\ BlockFree(Pack, c)

FitAbove(b, a) == b # 0 /\ \E c \in Blocks(Pack) : c > b /\ Fits(Pack, c, a)

C15_Witness ==
    /\ Running /\ initialized
    /\ \E n \in Sizes \ {0} : FreeBelow(Chosen(n))
    /\ \E n \in Sizes \ {0} : FitAbove(Chosen(n), Rounded(n))

\* None of the blocks B is free with a payload of at least a bytes.
NoFit(B, a) == \A c \in B : ~Fits(Pack, c, a)

\* M, the state malloc left, is nullptr returned with the arena as it was.
NullAndUntouched(M) == M.ret = 0 /\ SameArena(M, Pack) /\ Clean(M)

NullIffNoFit(M, nofit) ==
    /\ (M.ret = 0) <=> nofit
    /\ nofit => NullAndUntouched(M)

NullIffNoFitAmong(B) ==
    \A n \in Sizes \ {0} :
        NullIffNoFit(malloc(Pack, n, MallocAddr), NoFit(B, Rounded(n)))

\* C16: with an arena, malloc(n) for n > 0 returns nullptr exactly when no
\* free block has a payload of at least the rounded size, and then the arena
\* is as before: not grown, the same chain, sizes and flags.
C16_NullIffNoFit ==
    []((Running /\ initialized) => NullIffNoFitAmong(Blocks(Pack)))

\* A live block and a free one that is too small for a request, which fails.
C16_Witness ==
    /\ Running /\ initialized /\ live # {}
    /\ \E c \in Blocks(Pack) : BlockFree(Pack, c)
    /\ \E n \in Sizes \ {0} : NullAndUntouched(malloc(Pack, n, MallocAddr))

\* Block b of s bytes is cut for a request of a bytes.
Splits(s, a) == s >= a + hdr_sz + MIN_BLOCK_SIZE

\* What the split rule makes of the header of b: b with a bytes and a free
\* block with the rest behind it, or b as large as it was.
SplitRule(b, s, a) ==
    IF Splits(s, a)
    THEN << <<b, a, FALSE>>, <<b + hdr_sz + a, s - a - hdr_sz, TRUE>> >>
    ELSE << <<b, s, FALSE>> >>

\* The headers the rule leaves when block number i of H is chosen.
SplitAt(H, i, a) ==
    SubSeq(H, 1, i - 1) \o SplitRule(H[i][1], H[i][2], a)
        \o SubSeq(H, i + 1, Len(H))

SplitRuleKept(H, b, a, M) ==
    b # 0 =>
        /\ \E i \in 1..Len(H) : H[i][1] = b /\ Headers(M) = SplitAt(H, i, a)
        /\ a <= BlockSize(M, b)
        /\ BlockSize(M, b) < a + hdr_sz + MIN_BLOCK_SIZE
        /\ Clean(M)

SplitRuleKeptBy(H, a, M) == SplitRuleKept(H, ChosenIn(M), a, M)

SplitRuleOn(H) ==
    \A n \in Sizes \ {0} :
        SplitRuleKeptBy(H, Rounded(n), malloc(Pack, n, MallocAddr))

\* C17: when malloc takes a free block of s bytes for the rounded size a, it
\* splits the block if s >= a + header size + MIN_BLOCK_SIZE, returning a
\* bytes and putting a free block of s - a - header size right behind, and
\* otherwise returns the block with its s bytes; so a <= payload size <
\* a + header size + MIN_BLOCK_SIZE, and every other block keeps its size
\* and its flag.
C17_SplitRule == []((Running /\ initialized) => SplitRuleOn(Headers(Pack)))

\* One request here is served by a split, another by a block that is
\* larger than asked for and too small to cut.
C17_Witness ==
    /\ Running /\ initialized /\ live # {}
    /\ \E n \in Sizes \ {0} :
           Chosen(n) # 0 /\ Splits(BlockSize(Pack, Chosen(n)), Rounded(n))
    /\ \E n \in Sizes \ {0} :
           /\ Chosen(n) # 0
           /\ BlockSize(Pack, Chosen(n)) > Rounded(n)
           /\ ~Splits(BlockSize(Pack, Chosen(n)), Rounded(n))

\* C18: for every size, those within ALIGNMENT of SIZE_MAX included, a
\* pointer that malloc(size) returns stands for a block whose payload has at
\* least size bytes.
C18_PayloadCoversRequest ==
    Running =>
        \A n \in Sizes :
            malloc(Pack, n, MallocAddr).ret # 0 =>
                BlockSize(malloc(Pack, n, MallocAddr),
                          payload_to_block(malloc(Pack, n, MallocAddr).ret)) >= n

\* Where the payload at p ends, as its header in G says.
PayloadEnd(G, p) == p + BlockSize(G, payload_to_block(p))

\* The block behind p, header and payload as they are after the step, lay
\* inside one block that was free before it.
WasFree(p) ==
    ReleasedIn(Pack, payload_to_block(p),
               PayloadEnd(Pack', p) - payload_to_block(p))

\* A step in which a call returned a pointer it had not been given: nallocs
\* counts them.  The pointer is one that was not live, and its block was free.
HandsOutFree == nallocs' > nallocs => \E p \in live' \ live : WasFree(p)

LiveDisjoint ==
    \A p \in live, q \in live :
        p # q => (PayloadEnd(Pack, p) <= q \/ PayloadEnd(Pack, q) <= p)

\* C19: no live allocation is handed out again: the payloads of the live
\* pointers do not overlap, and a pointer that malloc, calloc or a realloc
\* that moves returns is not a live one and stands for a block that was free
\* before the call.
C19_NoDoubleHandOut ==
    /\ []((Running /\ initialized) => LiveDisjoint)
    /\ [][(Running /\ initialized /\ proc' = "running") => HandsOutFree]_vars

\* Two live blocks, a free block between or before them that a malloc takes
\* again, and a realloc that moves one of them.
C19_Witness ==
    /\ Running /\ initialized
    /\ \E p \in live, q \in live :
           /\ p < q
           /\ \E n \in Sizes :
                  /\ malloc(Pack, n, MallocAddr).ret # 0
                  /\ malloc(Pack, n, MallocAddr).ret < q
           /\ \E n \in Sizes, up \in BOOLEAN :
                  realloc(Pack, p, n, MallocAddr, up).ret \notin {0, p}

\* The chain of an arena that init_allocator has just made: one free block
\* at heap_base with all of the arena but its header.
PostInitShape(G) ==
    Headers(G) = << <<G.heap_base, G.heap_total_size - hdr_sz, TRUE>> >>

\* C20: whatever malloc, calloc and realloc calls went before, once every
\* live pointer has been released, in any order, the chain is one free block
\* at heap_base with heap_total_size minus the header size as its payload.
C20_FullReclamation ==
    (Running /\ initialized /\ live = {}) => PostInitShape(Pack)

\* Blocks were handed out, the last of them has just been released, and
\* nothing is live.
C20_Witness ==
    /\ Running /\ initialized /\ live = {}
    /\ nallocs = MaxAllocs
    /\ dangling # {}
    /\ PostInitShape(Pack)
=============================================================================
